---- MODULE Spec2Model ----
(***************************************************************************)
(* A model of yalue/image_utils: the ShapeWalker line and rectangle        *)
(* walkers and DrawLine (drawing_utils.go), the jump-flooding Voronoi fill *)
(* (drawing_utils.go) and the CompositeImage layer stack                   *)
(* (composite_image.go).                                                   *)
(*                                                                         *)
(* Each subsystem has its own specification (SpecLine, SpecRect,           *)
(* SpecFlood, SpecComposite); the variables of the other subsystems stay   *)
(* at their idle values.                                                   *)
(***************************************************************************)
EXTENDS Integers, Sequences, FiniteSets, TLC

VARIABLES
    build,          \* the build of the program: see Builds
    \* DrawLine(a, b, c, dst)
    a, b,           \* the endpoints passed to DrawLine
    maxSteps,       \* DrawLine's safety ceiling (200000000 in the code)
    lineWalker,     \* the walker GetLineWalker(a, b) returned
    step,           \* DrawLine's step counter
    dstLog,         \* the dst.Set(x, y, c) calls made so far, in order
    lineErr,        \* DrawLine's result: "none" (nil) or "tooLong"
    linePc,         \* "call", "loop", "done"
    \* a caller walking GetRectangleWalker(r) as DrawWalker does
    rect,           \* the rectangle passed to GetRectangleWalker
    rw,             \* the rectangleWalker: edges, segment
    rectOut,        \* the points Next() returned so far, in order
    rectTrace,      \* per Next() call: the branch taken and the edge used
    rectPc,         \* "new", "walk", "done"
    \* VoronoiFill(m, isSeed)
    W, H,           \* the bounds of m: (0,0)-(W,H)
    drawable,       \* whether m is a DrawableImage
    seeds,          \* the points where isSeed is true
    pic,            \* the surface m: point -> colour
    Pixels,         \* VoronoiImage.Pixels, as point -> VoronoiPixel
    passPixels,     \* history: Pixels as the current pass found them
    stepSize,       \* JumpFloodFill's stepSize
    fx, fy,         \* JumpFloodFill's loop variables x, y
    fillErr,        \* VoronoiFill's result
    calls,          \* the calls of VoronoiFill made on the surface so far
    floodPc,        \* "call", "flood", "pass", "copy", "done"
    \* CompositeImage
    layerPics,      \* per layer, the image: its bounds and its paint
    topLeftPoints,  \* per layer, its top-left point
    compositeBounds,\* per layer, its rectangle in composite coordinates
    bounds          \* the composite's bounds

lineVars == <<a, b, maxSteps, lineWalker, step, dstLog, lineErr, linePc>>
rectVars == <<rect, rw, rectOut, rectTrace, rectPc>>
floodVars ==
    <<W, H, drawable, seeds, pic, Pixels, passPixels, stepSize, fx, fy, fillErr,
      calls, floodPc>>
compVars == <<layerPics, topLeftPoints, compositeBounds, bounds>>
vars == <<build, lineVars, rectVars, floodVars, compVars>>

----------------------------------------------------------------------------
(* Bounds of the model. *)

\* Coordinates of line endpoints: -MaxNeg..MaxCoord.
MaxCoord == 4
MaxNeg == 1
\* Corners of rectangles: -MaxNeg..MaxCorn.
MaxCorn == 3
\* Small safety ceilings tried besides the code's 200000000.
TestCeiling == 2
\* VoronoiFill: surfaces up to MaxDim x MaxDim with at most MaxSeeds seeds
\* (or every pixel a seed), and N x N surfaces up to MaxCorner x MaxCorner
\* with the two seeds (0,0) and (N-1,N-1).
MaxDim == 4
MaxSeeds == 1
MaxCorner == 7
\* The calls of VoronoiFill made on one surface.
MaxCalls == 2

Coord == (0 - MaxNeg)..MaxCoord

RectCoord == (0 - MaxNeg)..MaxCorn

----------------------------------------------------------------------------
(* image.Point, image.Rectangle *)

Pt(x, y) == [X |-> x, Y |-> y]

Rectangle(min, max) == [Min |-> min, Max |-> max]

Abs(n) == IF n < 0 THEN 0 - n ELSE n

Max2(m, n) == IF m > n THEN m ELSE n

Min2(m, n) == IF m < n THEN m ELSE n

\* image.Rectangle.Canon: swaps Min and Max per axis where Max < Min.
Canon(r) ==
    Rectangle(Pt(Min2(r.Min.X, r.Max.X), Min2(r.Min.Y, r.Max.Y)),
              Pt(Max2(r.Min.X, r.Max.X), Max2(r.Min.Y, r.Max.Y)))

Dx(r) == r.Max.X - r.Min.X

Dy(r) == r.Max.Y - r.Min.Y

\* image.Point.In(r): r.Min.X <= p.X < r.Max.X and the same for Y.
PtIn(p, r) ==
    /\ r.Min.X <= p.X /\ p.X < r.Max.X
    /\ r.Min.Y <= p.Y /\ p.Y < r.Max.Y

----------------------------------------------------------------------------
(* float64 arithmetic of the line walkers.                                 *)
(*                                                                         *)
(* A slope float64(dy) / float64(dx) is kept as the pair (slopeNum,        *)
(* slopeDen) of the integers divided; slopeDen = 0 happens only with       *)
(* slopeNum = 0 (equal endpoints) and is NaN.  Next() evaluates            *)
(* int(y + float64(x) * slope).  The division is rounded to a float64; the *)
(* product and the sum are rounded one after the other, or together where  *)
(* the build fuses them into one multiply-add (the language allows both).  *)
(* The roundings are computed exactly, on the remainders of 2^n rather     *)
(* than on 2^n itself.                                                     *)

Sign(n) == IF n < 0 THEN -1 ELSE IF n > 0 THEN 1 ELSE 0

RECURSIVE Pow2(_)
Pow2(n) == IF n <= 0 THEN 1 ELSE 2 * Pow2(n - 1)

\* 2^n modulo m.
RECURSIVE Pow2Mod(_, _)
Pow2Mod(n, m) == IF n = 0 THEN 1 % m ELSE (2 * Pow2Mod(n - 1, m)) % m

\* floor(log2(n)), n >= 1.
RECURSIVE FloorLog2(_)
FloorLog2(n) == IF n <= 1 THEN 0 ELSE 1 + FloorLog2(n \div 2)

RECURSIVE IsPowerOfTwo(_)
IsPowerOfTwo(n) ==
    IF n <= 1 THEN n = 1
    ELSE (n % 2 = 0) /\ IsPowerOfTwo(n \div 2)

\* For 0 < p <= d, the j >= 0 with 2^(-j) <= p/d < 2^(1-j): the float64
\* nearest p/d is a multiple of 2^-(MantissaBits + j).
RECURSIVE NegExponent(_, _)
NegExponent(p, d) == IF p >= d THEN 0 ELSE 1 + NegExponent(2 * p, d)

\* The fraction bits of a float64.
MantissaBits == 52

\* The rounding error of float64(p) / float64(d) for 0 < p <= d, as the
\* integer e with float64 quotient = p/d + e / (d * 2^(MantissaBits + j)),
\* j = NegExponent(p, d).  (A tie, 2 * rem = d, needs a d of 2^53 or more.)
SlopeError(p, d) ==
    LET rem == (p * Pow2Mod(MantissaBits + NegExponent(p, d), d)) % d
    IN  IF 2 * rem <= d THEN 0 - rem ELSE d - rem

\* The integer nearest x/y (x >= 0, y > 0), a tie going to the even one.
RoundHalfEven(x, y) ==
    LET f == x \div y
        r == x % y
    IN  IF 2 * r < y THEN f
        ELSE IF 2 * r > y THEN f + 1
        ELSE IF f % 2 = 0 THEN f ELSE f + 1

\* int(f) of a float64 f = n / d (d > 0): truncation toward zero.
TruncDiv(n, d) == IF n >= 0 THEN n \div d ELSE 0 - ((0 - n) \div d)

\* int(base + cur * (num / den)) where the product and the sum are fused:
\* only the quotient and the final sum are rounded.  The result differs
\* from the exact one only where the exact sum is a non-zero integer n and
\* the quotient's error leaves the sum below |n| by more than half the gap
\* between |n| and the float64 before it.
FusedToInt(base, cur, num, den) ==
    LET vn == (base * den) + (cur * num)
    IN  IF (vn % den # 0) \/ (vn = 0) \/ (num = 0) \/ (cur = 0)
        THEN TruncDiv(vn, den)
        ELSE LET n == TruncDiv(vn, den)
                 j == NegExponent(Abs(num), den)
                 eps == Sign(num) * cur * SlopeError(Abs(num), den)
                 kn == FloorLog2(Abs(n))
             IN  IF (eps = 0) \/ (Sign(eps) = Sign(n)) THEN n
                 ELSE IF (IF IsPowerOfTwo(Abs(n)) THEN 4 ELSE 2) * Abs(eps)
                            > den * Pow2(kn + j)
                 THEN n - Sign(n)
                 ELSE n

\* int(base + cur * (num / den)) with the quotient, the product and the sum
\* each rounded to a float64.  The product of an exact |m| = |cur * num /
\* den| lands steps float64s away from |m|; the sum is then rounded again.
UnfusedToInt(base, cur, num, den) ==
    LET vn == (base * den) + (cur * num)
    IN  IF (vn % den # 0) \/ (vn = 0) \/ (num = 0) \/ (cur = 0)
        THEN TruncDiv(vn, den)
        ELSE LET n == TruncDiv(vn, den)
                 m == n - base
                 j == NegExponent(Abs(num), den)
                 err == SlopeError(Abs(num), den)
                 km == FloorLog2(Abs(m))
                 kn == FloorLog2(Abs(n))
                 \* below a power of two the float64s are twice as dense
                 half == IF (err < 0) /\ IsPowerOfTwo(Abs(m)) THEN 1 ELSE 0
                 steps == RoundHalfEven((1 + half) * Abs(cur) * Abs(err),
                                        den * Pow2(km + j))
                 npow == IF IsPowerOfTwo(Abs(n)) THEN 1 ELSE 0
             IN  IF (steps = 0) \/ (Sign(m) * Sign(err) = Sign(n)) THEN n
                 ELSE IF steps * Pow2(((km - half) + 1) + npow) > Pow2(kn)
                 THEN n - Sign(n)
                 ELSE n

\* int(NaN) is implementation-specific in Go: the smallest int on amd64, 0
\* on arm64, the largest int on riscv64.  MinInt and MaxInt stand for the
\* smallest and the largest int, values outside the coordinates of the model.
MinInt == -1000000

MaxInt == 1000000

NaNToInt == {0, MinInt, MaxInt}

\* The builds of the program: whether x*y + z is fused, and what int(NaN) is.
Builds == [fma : BOOLEAN, nanInt : NaNToInt]

\* int(y + float64(x) * slope), y = base, x = cur, slope = num / den.
FloatToInt(base, cur, num, den) ==
    IF den = 0 THEN build.nanInt
    ELSE IF build.fma THEN FusedToInt(base, cur, num, den)
    ELSE UnfusedToInt(base, cur, num, den)

----------------------------------------------------------------------------
(* widerLine, tallerLine, GetLineWalker *)

\* widerLine.Next: the point returned.
widerLineNextPoint(l) ==
    Pt(l.x, FloatToInt(l.y, l.x, l.slopeNum, l.slopeDen))

\* widerLine.Next: the walker after l.x++.
widerLineNext(l) == [l EXCEPT !.x = l.x + 1]

widerLineDone(l) == l.x >= l.maxX

widerLineReset(l) == [l EXCEPT !.x = l.origX]

tallerLineNextPoint(l) ==
    Pt(FloatToInt(l.x, l.y, l.slopeNum, l.slopeDen), l.y)

tallerLineNext(l) == [l EXCEPT !.y = l.y + 1]

tallerLineReset(l) == [l EXCEPT !.y = l.origY]

tallerLineDone(l) == l.y >= l.maxY

\* The ShapeWalker interface, dispatched on the walker's type.
NextPoint(w) ==
    IF w.type = "widerLine" THEN widerLineNextPoint(w) ELSE tallerLineNextPoint(w)

Next(w) == IF w.type = "widerLine" THEN widerLineNext(w) ELSE tallerLineNext(w)

Done(w) == IF w.type = "widerLine" THEN widerLineDone(w) ELSE tallerLineDone(w)

Reset(w) == IF w.type = "widerLine" THEN widerLineReset(w) ELSE tallerLineReset(w)

\* The test of the longer axis the wrong way round: the walk steps along
\* the shorter axis.
GetLineWalkerShorterAxis(p, q) ==
    LET dx == Abs(q.X - p.X)
        dy == Abs(q.Y - p.Y)
    IN  IF dx < dy
        THEN IF p.X > q.X
             THEN [type |-> "widerLine", x |-> q.X, origX |-> q.X, y |-> q.Y,
                   slopeNum |-> p.Y - q.Y, slopeDen |-> p.X - q.X, maxX |-> p.X]
             ELSE [type |-> "widerLine", x |-> p.X, origX |-> p.X, y |-> p.Y,
                   slopeNum |-> dy, slopeDen |-> dx, maxX |-> q.X]
        ELSE IF p.Y > q.Y
             THEN [type |-> "tallerLine", x |-> q.X, origY |-> q.Y, y |-> q.Y,
                   slopeNum |-> p.X - q.X, slopeDen |-> p.Y - q.Y, maxY |-> p.Y]
             ELSE [type |-> "tallerLine", x |-> p.X, origY |-> p.Y, y |-> p.Y,
                   slopeNum |-> dx, slopeDen |-> dy, maxY |-> q.Y]

\* GetLineWalker(a, b).  dx and dy are absolute values unless the endpoints
\* are swapped, in which case they are recomputed with their signs.
GetLineWalker(p, q) ==
    LET dx == Abs(q.X - p.X)
        dy == Abs(q.Y - p.Y)
    IN  IF dx > dy
        THEN IF p.X > q.X
             THEN [type |-> "widerLine", x |-> q.X, origX |-> q.X, y |-> q.Y,
                   slopeNum |-> p.Y - q.Y, slopeDen |-> p.X - q.X, maxX |-> p.X]
             ELSE [type |-> "widerLine", x |-> p.X, origX |-> p.X, y |-> p.Y,
                   slopeNum |-> dy, slopeDen |-> dx, maxX |-> q.X]
        ELSE IF p.Y > q.Y
             THEN [type |-> "tallerLine", x |-> q.X, origY |-> q.Y, y |-> q.Y,
                   slopeNum |-> p.X - q.X, slopeDen |-> p.Y - q.Y, maxY |-> p.Y]
             ELSE [type |-> "tallerLine", x |-> p.X, origY |-> p.Y, y |-> p.Y,
                   slopeNum |-> dx, slopeDen |-> dy, maxY |-> q.Y]

----------------------------------------------------------------------------
(* DrawLine *)

\* maxSteps := 200000000
maxStepsLimit == 200000000

\* The ceilings tried: the code's, and small ones that a walk can reach.
Ceilings == {maxStepsLimit} \cup (1..TestCeiling)

NoWalker == [type |-> "none"]

IdleLine ==
    /\ a = Pt(0, 0) /\ b = Pt(0, 0)
    /\ maxSteps = maxStepsLimit
    /\ lineWalker = NoWalker
    /\ step = 0
    /\ dstLog = <<>>
    /\ lineErr = "none"
    /\ linePc = "idle"

InitLineVars ==
    /\ a \in {Pt(x, y) : x \in Coord, y \in Coord}
    /\ b \in {Pt(x, y) : x \in Coord, y \in Coord}
    /\ maxSteps \in Ceilings
    /\ lineWalker = NoWalker
    /\ step = 0
    /\ dstLog = <<>>
    /\ lineErr = "none"
    /\ linePc = "call"

\* The ceiling tested one step too late.
StepsExhaustedLate(st, ceiling) == st > ceiling

\* if step >= maxSteps
StepsExhausted(st, ceiling) == st >= ceiling

\* lineWalker := GetLineWalker(a, b); lineWalker.Reset(); step := 0
DrawLineCall ==
    /\ linePc = "call"
    /\ lineWalker' = Reset(GetLineWalker(a, b))
    /\ step' = 0
    /\ linePc' = "loop"
    /\ UNCHANGED <<a, b, maxSteps, dstLog, lineErr,
                   build, rectVars, floodVars, compVars>>

\* for !lineWalker.Done() { step++; ...; loc := Next(); dst.Set(loc, c) }
DrawLineStep ==
    /\ linePc = "loop"
    /\ ~Done(lineWalker)
    /\ ~StepsExhausted(step + 1, maxSteps)
    /\ step' = step + 1
    /\ dstLog' = Append(dstLog, NextPoint(lineWalker))
    /\ lineWalker' = Next(lineWalker)
    /\ UNCHANGED <<a, b, maxSteps, lineErr, linePc,
                   build, rectVars, floodVars, compVars>>

\* if step >= maxSteps { return fmt.Errorf(...) }
DrawLineTooLong ==
    /\ linePc = "loop"
    /\ ~Done(lineWalker)
    /\ StepsExhausted(step + 1, maxSteps)
    /\ step' = step + 1
    /\ lineErr' = "tooLong"
    /\ linePc' = "done"
    /\ UNCHANGED <<a, b, maxSteps, lineWalker, dstLog,
                   build, rectVars, floodVars, compVars>>

\* the loop ends: return nil
DrawLineReturn ==
    /\ linePc = "loop"
    /\ Done(lineWalker)
    /\ lineErr' = "none"
    /\ linePc' = "done"
    /\ UNCHANGED <<a, b, maxSteps, lineWalker, step, dstLog,
                   build, rectVars, floodVars, compVars>>

DrawLine == DrawLineCall \/ DrawLineStep \/ DrawLineTooLong \/ DrawLineReturn

----------------------------------------------------------------------------
(* rectangleWalker, walked as DrawWalker walks a ShapeWalker:              *)
(*     w.Reset(); for !w.Done() { p := w.Next(); ... }                     *)

\* len(w.edges)
NumEdges == 4

\* GetRectangleWalker(r); edges is indexed from 0 as in the code.
GetRectangleWalker(r) ==
    LET c == Canon(r)
        topLeft == c.Min
        topRight == Pt(c.Max.X, c.Min.Y)
        bottomRight == c.Max
        bottomLeft == Pt(c.Min.X, c.Max.Y)
    IN  [edges |-> [i \in 0..(NumEdges - 1) |->
                      CASE i = 0 -> GetLineWalker(topLeft, topRight)
                        [] i = 1 -> GetLineWalker(topRight, bottomRight)
                        [] i = 2 -> GetLineWalker(bottomRight, bottomLeft)
                        [] OTHER -> GetLineWalker(bottomLeft, topLeft)],
         segment |-> 0]

rectangleWalkerReset(w) ==
    [edges |-> [i \in DOMAIN w.edges |-> Reset(w.edges[i])], segment |-> 0]

rectangleWalkerDone(w) == w.segment >= NumEdges

\* rectangleWalker.Next, first statement: if w.edges[w.segment].Done() { w.segment++ }
rectangleWalkerSegment(w) ==
    IF Done(w.edges[w.segment]) THEN w.segment + 1 ELSE w.segment

\* rectangleWalker.Next: the edge whose Next() is returned; the last edge
\* on the fallback path (segment >= len(w.edges)).
rectangleWalkerEdge(w) ==
    IF rectangleWalkerSegment(w) >= NumEdges
    THEN NumEdges - 1
    ELSE rectangleWalkerSegment(w)

IdleRect ==
    /\ rect = Rectangle(Pt(0, 0), Pt(0, 0))
    /\ rw = [edges |-> <<>>, segment |-> 0]
    /\ rectOut = <<>>
    /\ rectTrace = <<>>
    /\ rectPc = "idle"

InitRectVars ==
    /\ rect \in {Rectangle(Pt(x0, y0), Pt(x1, y1)) :
                    x0 \in RectCoord, y0 \in RectCoord,
                    x1 \in RectCoord, y1 \in RectCoord}
    /\ rw = [edges |-> <<>>, segment |-> 0]
    /\ rectOut = <<>>
    /\ rectTrace = <<>>
    /\ rectPc = "new"

\* w := GetRectangleWalker(rect); w.Reset()
RectCreate ==
    /\ rectPc = "new"
    /\ rw' = rectangleWalkerReset(GetRectangleWalker(rect))
    /\ rectPc' = "walk"
    /\ UNCHANGED <<rect, rectOut, rectTrace,
                   build, lineVars, floodVars, compVars>>

\* Done() returned false: p := w.Next()
RectNext ==
    /\ rectPc = "walk"
    /\ ~rectangleWalkerDone(rw)
    /\ LET seg == rectangleWalkerSegment(rw)
           e == rectangleWalkerEdge(rw)
       IN  /\ rectOut' = Append(rectOut, NextPoint(rw.edges[e]))
           /\ rectTrace' = Append(rectTrace,
                  [fallback |-> seg >= NumEdges,
                   edge |-> e,
                   edgeDone |-> Done(rw.edges[e])])
           /\ rw' = [edges |-> [rw.edges EXCEPT ![e] = Next(rw.edges[e])],
                     segment |-> seg]
    /\ UNCHANGED <<rect, rectPc,
                   build, lineVars, floodVars, compVars>>

\* Done() returned true: the loop ends
RectFinish ==
    /\ rectPc = "walk"
    /\ rectangleWalkerDone(rw)
    /\ rectPc' = "done"
    /\ UNCHANGED <<rect, rw, rectOut, rectTrace,
                   build, lineVars, floodVars, compVars>>

WalkRectangle == RectCreate \/ RectNext \/ RectFinish

----------------------------------------------------------------------------
(* VoronoiPixel, VoronoiImage *)

\* color.Color values are the four 16-bit channels RGBA() returns.
RGBA(cr, cg, cb, ca) == [r |-> cr, g |-> cg, b |-> cb, a |-> ca]

\* The nil color.Color of a zero VoronoiPixel.
NilColor == [nil |-> TRUE]

\* var undefinedPixel, also the zero value of a VoronoiPixel.
undefinedPixel ==
    [IsSeed |-> FALSE, IsDefined |-> FALSE, Color |-> NilColor,
     SeedLocation |-> Pt(0, 0)]

\* The test of IsDefined the wrong way round.
VoronoiPixelRGBAInverted(p) ==
    IF p.IsDefined THEN RGBA(0, 0, 0, 65535) ELSE p.Color

\* VoronoiPixel.RGBA
VoronoiPixelRGBA(p) ==
    IF ~p.IsDefined THEN RGBA(0, 0, 0, 65535) ELSE p.Color

Cells(w, h) == {Pt(x, y) : x \in 0..(w - 1), y \in 0..(h - 1)}

\* VoronoiImage.At: the undefined pixel for any out-of-bounds point.
At(P, w, h, x, y) ==
    IF (x < 0) \/ (x >= w) \/ (y < 0) \/ (y >= h)
    THEN undefinedPixel
    ELSE P[Pt(x, y)]

\* (dx * dx) + (dy * dy) of setSinglePixel, exact in float32 for the
\* distances of the model (below 2^24).
SeedDistance(x, y, loc) ==
    ((x - loc.X) * (x - loc.X)) + ((y - loc.Y) * (y - loc.Y))

\* The (i, j) of setSinglePixel's loops in the order they run: j outer,
\* i inner, (0, 0) skipped.
NeighborOrder ==
    << <<-1, -1>>, <<0, -1>>, <<1, -1>>,
       <<-1, 0>>,             <<1, 0>>,
       <<-1, 1>>,  <<0, 1>>,  <<1, 1>> >>

\* A comparison the wrong way round: the farther seed is taken.
TakesTargetFarther(distToTargetSeed, curSeedDistance) ==
    distToTargetSeed > curSeedDistance

\* A tie goes to the target, the later-examined candidate.
TakesTargetOnTie(distToTargetSeed, curSeedDistance) ==
    distToTargetSeed <= curSeedDistance

\* Whether setSinglePixel takes the target's seed for a defined pixel:
\* not if distToTargetSeed >= curSeedDistance.
TakesTarget(distToTargetSeed, curSeedDistance) ==
    ~(distToTargetSeed >= curSeedDistance)

\* The first defined neighbor is adopted, its colour forgotten.
FirstSeenWithoutColor(p, target) ==
    [p EXCEPT !.IsDefined = TRUE, !.SeedLocation = target.SeedLocation]

\* The pixel after it has "seen" its first defined neighbor.
FirstSeen(p, target) ==
    [p EXCEPT !.IsDefined = TRUE,
              !.Color = target.Color,
              !.SeedLocation = target.SeedLocation]

\* The whole target pixel is copied, IsSeed included.
TakeCloserWholePixel(p, target) == target

\* The pixel after it took the seed of a target whose seed is closer.
TakeCloser(p, target) ==
    [p EXCEPT !.SeedLocation = target.SeedLocation, !.Color = target.Color]

\* One iteration of setSinglePixel's inner loop on pixel p (a record with
\* the pixel and curSeedDistance), for the k-th neighbor.
VisitNeighbor(P, w, h, x, y, size, k, st) ==
    LET i == NeighborOrder[k][1]
        j == NeighborOrder[k][2]
        target == At(P, w, h, x + (i * size), y + (j * size))
        distToTargetSeed == SeedDistance(x, y, target.SeedLocation)
    IN  IF ~target.IsDefined THEN st
        ELSE IF ~st.p.IsDefined
        THEN [p |-> FirstSeen(st.p, target),
              curSeedDistance |-> distToTargetSeed]
        ELSE IF ~TakesTarget(distToTargetSeed, st.curSeedDistance) THEN st
        ELSE [p |-> TakeCloser(st.p, target),
              curSeedDistance |-> distToTargetSeed]

RECURSIVE VisitNeighbors(_, _, _, _, _, _, _, _)
VisitNeighbors(P, w, h, x, y, size, k, st) ==
    IF k > Len(NeighborOrder) THEN st
    ELSE VisitNeighbors(P, w, h, x, y, size, k + 1,
                        VisitNeighbor(P, w, h, x, y, size, k, st))

\* setSinglePixel(x, y, stepSize): the pixels after the call.  The
\* neighbors are read from the same slice the pixel is written to.
setSinglePixel(P, w, h, x, y, size) ==
    LET p == P[Pt(x, y)]
        curSeedDistance ==
            IF p.IsDefined THEN SeedDistance(x, y, p.SeedLocation) ELSE 0
    IN  IF p.IsSeed THEN P
        ELSE [P EXCEPT ![Pt(x, y)] =
                 VisitNeighbors(P, w, h, x, y, size, 1,
                     [p |-> p, curSeedDistance |-> curSeedDistance]).p]

----------------------------------------------------------------------------
(* VoronoiFill, JumpFloodFill *)

\* The colour of the surface at (x, y) before the fill: every pixel has a
\* colour of its own (the fill only copies colours), with alpha opaque,
\* half or zero.
PicColor(w, x, y) ==
    LET n == (y * w) + x
    IN  RGBA(n + 1, 0, 0,
             CASE n % 3 = 0 -> 65535 [] n % 3 = 1 -> 32768 [] OTHER -> 0)

\* The subsets of S with at most k elements.
RECURSIVE SmallSubsets(_, _)
SmallSubsets(S, k) ==
    IF k = 0 THEN {{}}
    ELSE LET prev == SmallSubsets(S, k - 1)
         IN  prev \cup {t \cup {e} : t \in prev, e \in S}

\* pixels := make([]VoronoiPixel, w*h), then the seeds marked.
SeedPixels(w, h, isSeed, m) ==
    [c \in Cells(w, h) |->
        IF c \in isSeed
        THEN [IsSeed |-> TRUE, IsDefined |-> TRUE, Color |-> m[c],
              SeedLocation |-> c]
        ELSE undefinedPixel]

\* The first step taken from the smaller side.
FirstStepSizeOfSmaller(w, h) == Min2(w, h) \div 2

\* stepSize := max(w, h) >> 1
FirstStepSize(w, h) == Max2(w, h) \div 2

\* pic.Set(x, y, voronoiImage.At(x, y)) for every pixel: the surface keeps
\* the channels the colour's RGBA() returns.
CopyBack(P, w, h) ==
    [c \in Cells(w, h) |-> VoronoiPixelRGBA(At(P, w, h, c.X, c.Y))]

IdleFlood ==
    /\ W = 0 /\ H = 0
    /\ drawable = FALSE
    /\ seeds = {}
    /\ pic = <<>>
    /\ Pixels = <<>>
    /\ passPixels = <<>>
    /\ stepSize = 0
    /\ fx = 0 /\ fy = 0
    /\ fillErr = "none"
    /\ calls = 0
    /\ floodPc = "idle"

InitFloodVars ==
    /\ \/ /\ W \in 0..MaxDim
          /\ H \in 0..MaxDim
          /\ seeds \in SmallSubsets(Cells(W, H), MaxSeeds) \cup {Cells(W, H)}
       \/ /\ W \in 2..MaxCorner
          /\ H = W
          /\ seeds = {Pt(0, 0), Pt(W - 1, H - 1)}
    /\ drawable \in BOOLEAN
    /\ pic = [c \in Cells(W, H) |-> PicColor(W, c.X, c.Y)]
    /\ Pixels = <<>>
    /\ passPixels = <<>>
    /\ stepSize = 0
    /\ fx = 0 /\ fy = 0
    /\ fillErr = "none"
    /\ calls = 1
    /\ floodPc = "call"

\* pic, ok := m.(DrawableImage); if !ok { return error }
VoronoiFillNotDrawable ==
    /\ floodPc = "call"
    /\ ~drawable
    /\ fillErr' = "notDrawable"
    /\ floodPc' = "done"
    /\ UNCHANGED <<W, H, drawable, seeds, pic, Pixels, passPixels, stepSize,
                   fx, fy, calls,
                   build, lineVars, rectVars, compVars>>

\* bounds must run from (0,0) to positive X, Y
VoronoiFillBadBounds ==
    /\ floodPc = "call"
    /\ drawable
    /\ ~((W > 0) /\ (H > 0))
    /\ fillErr' = "badBounds"
    /\ floodPc' = "done"
    /\ UNCHANGED <<W, H, drawable, seeds, pic, Pixels, passPixels, stepSize,
                   fx, fy, calls,
                   build, lineVars, rectVars, compVars>>

\* the VoronoiImage is initialised and JumpFloodFill entered
VoronoiFillStart ==
    /\ floodPc = "call"
    /\ drawable
    /\ (W > 0) /\ (H > 0)
    /\ Pixels' = SeedPixels(W, H, seeds, pic)
    /\ passPixels' = SeedPixels(W, H, seeds, pic)
    /\ stepSize' = FirstStepSize(W, H)
    /\ fx' = 0 /\ fy' = 0
    /\ floodPc' = "flood"
    /\ UNCHANGED <<W, H, drawable, seeds, pic, fillErr, calls,
                   build, lineVars, rectVars, compVars>>

\* v.setSinglePixel(x, y, stepSize); x++ (and y++ at the end of a row)
JumpFloodPixel ==
    /\ floodPc = "flood"
    /\ stepSize > 0
    /\ fy < H
    /\ Pixels' = setSinglePixel(Pixels, W, H, fx, fy, stepSize)
    /\ IF fx + 1 < W
       THEN fx' = fx + 1 /\ fy' = fy
       ELSE fx' = 0 /\ fy' = fy + 1
    /\ UNCHANGED <<W, H, drawable, seeds, pic, passPixels, stepSize, fillErr,
                   calls, floodPc,
                   build, lineVars, rectVars, compVars>>

\* the pass is over: stepSize = stepSize >> 1
JumpFloodNextPass ==
    /\ floodPc = "flood"
    /\ stepSize > 0
    /\ fy >= H
    /\ stepSize' = stepSize \div 2
    /\ fx' = 0 /\ fy' = 0
    /\ passPixels' = Pixels
    /\ UNCHANGED <<W, H, drawable, seeds, pic, Pixels, fillErr, calls, floodPc,
                   build, lineVars, rectVars, compVars>>

\* stepSize is 0: JumpFloodFill returns nil
JumpFloodReturn ==
    /\ floodPc = "flood"
    /\ stepSize = 0
    /\ floodPc' = "copy"
    /\ UNCHANGED <<W, H, drawable, seeds, pic, Pixels, passPixels, stepSize,
                   fx, fy, fillErr,
                   calls,
                   build, lineVars, rectVars, compVars>>

\* the results are copied back into the image; return nil
VoronoiFillCopy ==
    /\ floodPc = "copy"
    /\ pic' = CopyBack(Pixels, W, H)
    /\ floodPc' = "done"
    /\ UNCHANGED <<W, H, drawable, seeds, Pixels, passPixels, stepSize,
                   fx, fy, fillErr, calls,
                   build, lineVars, rectVars, compVars>>

\* the caller runs VoronoiFill on the same surface and predicate again
VoronoiFillAgain ==
    /\ floodPc = "done"
    /\ fillErr = "none"
    /\ calls < MaxCalls
    /\ calls' = calls + 1
    /\ floodPc' = "call"
    /\ UNCHANGED <<W, H, drawable, seeds, pic, Pixels, passPixels, stepSize,
                   fx, fy, fillErr,
                   build, lineVars, rectVars, compVars>>

VoronoiFill ==
    \/ VoronoiFillNotDrawable
    \/ VoronoiFillBadBounds
    \/ VoronoiFillStart
    \/ JumpFloodPixel
    \/ JumpFloodNextPass
    \/ JumpFloodReturn
    \/ VoronoiFillCopy
    \/ VoronoiFillAgain

----------------------------------------------------------------------------
(* CompositeImage *)

\* The layers a composite holds at most in the model.
MaxLayers == 2

\* The bounds of the images added: sizes 1x1 to 2x2 at (0,0), an image whose
\* bounds do not start at (0,0), one whose bounds are not canonical, and an
\* empty one.
PicBounds ==
    {Rectangle(Pt(0, 0), Pt(1, 1)), Rectangle(Pt(0, 0), Pt(2, 1)),
     Rectangle(Pt(0, 0), Pt(2, 2)), Rectangle(Pt(1, 1), Pt(3, 2)),
     Rectangle(Pt(2, 1), Pt(0, 0)), Rectangle(Pt(0, 0), Pt(0, 0))}

\* The images added: one of each bounds painted with every kind of alpha,
\* and 2x2 images that are opaque everywhere and transparent everywhere.
Pics ==
    {[Bounds |-> r, paint |-> "mixed"] : r \in PicBounds} \cup
    {[Bounds |-> Rectangle(Pt(0, 0), Pt(2, 2)), paint |-> k] :
        k \in {"opaque", "clear"}}

\* The top-left points the images are placed at.
TopLefts == {Pt(-2, -1), Pt(0, 0), Pt(1, 1), Pt(1, -1), Pt(0, 1)}

\* NewCompositeImage
InitCompositeVars ==
    /\ layerPics = <<>>
    /\ topLeftPoints = <<>>
    /\ compositeBounds = <<>>
    /\ bounds = Rectangle(Pt(0, 0), Pt(1, 1))

IdleComposite == InitCompositeVars

\* AddImage without its first two tests: Min never moves.
AddImageBoundsMaxOnly(cb, picBounds, topLeft) ==
    LET canon == Canon(picBounds)
        bottomRight == Pt(topLeft.X + Dx(canon), topLeft.Y + Dy(canon))
    IN  Rectangle(
            cb.Min,
            Pt(IF bottomRight.X > cb.Max.X THEN bottomRight.X ELSE cb.Max.X,
               IF bottomRight.Y > cb.Max.Y THEN bottomRight.Y ELSE cb.Max.Y))

\* CompositeImage.AddImage: the bounds after the call.
AddImageBounds(cb, picBounds, topLeft) ==
    LET canon == Canon(picBounds)
        bottomRight == Pt(topLeft.X + Dx(canon), topLeft.Y + Dy(canon))
    IN  Rectangle(
            Pt(IF topLeft.X < cb.Min.X THEN topLeft.X ELSE cb.Min.X,
               IF topLeft.Y < cb.Min.Y THEN topLeft.Y ELSE cb.Min.Y),
            Pt(IF bottomRight.X > cb.Max.X THEN bottomRight.X ELSE cb.Max.X,
               IF bottomRight.Y > cb.Max.Y THEN bottomRight.Y ELSE cb.Max.Y))

\* CompositeImage.AddImage: the layer's rectangle in composite coordinates.
PlacedRectangle(picBounds, topLeft) ==
    LET canon == Canon(picBounds)
    IN  Rectangle(topLeft, Pt(topLeft.X + Dx(canon), topLeft.Y + Dy(canon)))

\* CompositeImage.Bounds
CompositeBounds(cb) == Rectangle(Pt(0, 0), Pt(Dx(cb), Dy(cb)))

\* color.Transparent, also the zero colour an image returns outside its
\* bounds.
Transparent == RGBA(0, 0, 0, 0)

\* The alpha an image's paint gives the pixel (x, y): a "mixed" image has
\* opaque pixels (0xffff, 0xff00), partly transparent ones (0x8000, 1) and
\* fully transparent ones.
PaintAlpha(paint, x, y) ==
    CASE paint = "opaque" -> 65535
      [] paint = "clear" -> 0
      [] OTHER -> LET n == (x + (2 * y)) % 5
                  IN  CASE n = 0 -> 65535 [] n = 1 -> 32768 [] n = 2 -> 0
                        [] n = 3 -> 65280 [] OTHER -> 1

\* pic.At(x, y) of a layer's image, in the image's own coordinates.
ImageAt(img, x, y) ==
    IF PtIn(Pt(x, y), img.Bounds)
    THEN RGBA(x + 10, y + 10, Dx(Canon(img.Bounds)), PaintAlpha(img.paint, x, y))
    ELSE Transparent

\* Only a colour with a >= 0xff00 is returned.
LayerColorReturnedOpaqueOnly(alpha) == alpha >= 65280

\* CompositeImage.At: whether the colour read from a layer is returned
\* (a >= 0xff00, or a != 0) rather than the scan moving on.
LayerColorReturned(alpha) == (alpha >= 65280) \/ (alpha # 0)

\* CompositeImage.At: the loop over the layers, from layer i down (layers
\* are numbered from 1 here, from 0 in the code).
RECURSIVE AtFromLayer(_, _)
AtFromLayer(pt, i) ==
    IF i < 1 THEN Transparent
    ELSE IF ~PtIn(pt, compositeBounds[i]) THEN AtFromLayer(pt, i - 1)
    ELSE LET offset == topLeftPoints[i]
             v == ImageAt(layerPics[i], pt.X - offset.X, pt.Y - offset.Y)
         IN  IF LayerColorReturned(v.a) THEN v ELSE AtFromLayer(pt, i - 1)

\* CompositeImage.At(x, y)
CompositeImageAt(x, y) ==
    LET pt == Pt(bounds.Min.X + x, bounds.Min.Y + y)
    IN  IF ~PtIn(pt, bounds) THEN Transparent
        ELSE AtFromLayer(pt, Len(layerPics))

AddImage ==
    /\ Len(layerPics) < MaxLayers
    /\ \E img \in Pics, topLeft \in TopLefts :
          /\ bounds' = AddImageBounds(bounds, img.Bounds, topLeft)
          /\ layerPics' = Append(layerPics, img)
          /\ topLeftPoints' = Append(topLeftPoints, topLeft)
          /\ compositeBounds' =
                Append(compositeBounds, PlacedRectangle(img.Bounds, topLeft))
    /\ UNCHANGED <<build, lineVars, rectVars, floodVars>>

----------------------------------------------------------------------------
(* Specifications *)

\* The walks of DrawLine never convert a NaN: only the fusing matters.
InitLine ==
    /\ build \in {bl \in Builds : bl.nanInt = 0}
    /\ InitLineVars /\ IdleRect /\ IdleFlood /\ IdleComposite
NextLine == DrawLine
SpecLine == InitLine /\ [][NextLine]_vars

\* The edges of a rectangle have slope 0 or NaN: the fusing changes nothing.
InitRect ==
    /\ build \in {bl \in Builds : ~bl.fma}
    /\ IdleLine /\ InitRectVars /\ IdleFlood /\ IdleComposite
NextRect == WalkRectangle
SpecRect == InitRect /\ [][NextRect]_vars

IdleBuild == build = [fma |-> FALSE, nanInt |-> 0]

InitFlood == IdleBuild /\ IdleLine /\ IdleRect /\ InitFloodVars /\ IdleComposite
NextFlood == VoronoiFill
SpecFlood == InitFlood /\ [][NextFlood]_vars

InitComposite ==
    IdleBuild /\ IdleLine /\ IdleRect /\ IdleFlood /\ InitCompositeVars
NextComposite == AddImage
SpecComposite == InitComposite /\ [][NextComposite]_vars

----------------------------------------------------------------------------
(* Properties: line and rectangle walkers *)

\* The elements of a sequence.
Range(seq) == {seq[i] : i \in DOMAIN seq}

\* The points a walker returns from Next() while Done() is false.
RECURSIVE WalkerPoints(_)
WalkerPoints(w) ==
    IF Done(w) THEN <<>>
    ELSE <<NextPoint(w)>> \o WalkerPoints(Next(w))

\* DrawLine returned nil under the code's ceiling of 200000000 steps.
LineDrawn == linePc = "done" /\ lineErr = "none" /\ maxSteps = maxStepsLimit

\* Whether the walk from p to q steps along X.
XMajor(p, q) == Abs(q.X - p.X) > Abs(q.Y - p.Y)

\* The endpoint with the higher coordinate on the major axis.
TerminalEndpoint(p, q) ==
    IF XMajor(p, q)
    THEN (IF p.X > q.X THEN p ELSE q)
    ELSE (IF p.Y > q.Y THEN p ELSE q)

\* C1: DrawLine(a, b, c, dst) calls dst.Set once for each point of the
\* walker built from (a, b), in the walker's order, and writes
\* max(|dx|, |dy|) + 1 points.
C1_DrawLineWritesEveryPoint ==
    LineDrawn =>
        /\ dstLog = WalkerPoints(Reset(GetLineWalker(a, b)))
        /\ Len(dstLog) = Max2(Abs(b.X - a.X), Abs(b.Y - a.Y)) + 1

\* C2: for a # b the walk includes the terminal endpoint: once Done() is
\* true, the last point Next() returned is the endpoint with the higher
\* major-axis coordinate.
C2_TerminalPointIncluded ==
    (linePc \in {"loop", "done"} /\ lineErr = "none" /\ a # b
        /\ Done(lineWalker)) =>
        /\ dstLog # <<>>
        /\ dstLog[Len(dstLog)] = TerminalEndpoint(a, b)

\* The outline of a canonical rectangle: the pixels on the four edges
\* joining its corners, the corners included.
Outline(c) ==
    {Pt(x, y) : x \in c.Min.X..c.Max.X, y \in c.Min.Y..c.Max.Y} \
    {Pt(x, y) : x \in (c.Min.X + 1)..(c.Max.X - 1),
                y \in (c.Min.Y + 1)..(c.Max.Y - 1)}

NonDegenerate(r) == Dx(Canon(r)) > 0 /\ Dy(Canon(r)) > 0

\* C3: on a non-degenerate rectangle the points Next() returns while Done()
\* is false are exactly the outline of the canonical rectangle.
C3_RectangleOutlineExact ==
    (rectPc = "done" /\ NonDegenerate(rect)) =>
        Range(rectOut) = Outline(Canon(rect))

\* C4: a caller that calls Next() only after Done() returned false never
\* takes the fallback branch of rectangleWalker.Next.
C4_NoFallbackUnderProtocol ==
    \A i \in DOMAIN rectTrace : ~rectTrace[i].fallback

\* C15: on a degenerate rectangle (zero width or zero height) no Next()
\* made while Done() is false returns a point of an edge whose own Done()
\* was true before the call: a zero-length edge contributes no point.
C15_ZeroLengthEdgesSkipped ==
    ~NonDegenerate(rect) =>
        \A i \in DOMAIN rectTrace : ~rectTrace[i].edgeDone

\* C12: GetLineWalker(a, a) yields a single-point walk: after Reset() Done()
\* is false, one Next() returns a and then Done() is true; DrawLine(a, a)
\* writes exactly the pixel a.
C12_EqualEndpointsSinglePoint ==
    (a = b /\ linePc \in {"loop", "done"}) =>
        /\ LET w == Reset(GetLineWalker(a, a))
           IN  ~Done(w) /\ NextPoint(w) = a /\ Done(Next(w))
        /\ LineDrawn => dstLog = <<a>>

\* C13: with the ceiling C = maxSteps, DrawLine returns the too-long error
\* exactly when its step counter reaches C before the walker is done, that
\* is when the walk has C points or more; the pixels set before the error
\* stay set (the first C - 1 points of the walk, and nothing else); a walk
\* that ends before the counter reaches C is written whole and returns nil.
C13_TooLongExactlyAtCeiling ==
    linePc = "done" =>
        LET pts == WalkerPoints(Reset(GetLineWalker(a, b)))
        IN  /\ (lineErr = "tooLong") <=> (Len(pts) >= maxSteps)
            /\ lineErr = "tooLong" =>
                    /\ step = maxSteps
                    /\ ~Done(lineWalker)
                    /\ dstLog = SubSeq(pts, 1, maxSteps - 1)
            /\ lineErr = "none" =>
                    /\ step < maxSteps
                    /\ Done(lineWalker)
                    /\ dstLog = pts

\* DrawLine((0,0), (4,2)) under a ceiling of 2: the error is returned after
\* the pixel (0,0) was set.
C13_Witness ==
    /\ linePc = "done" /\ lineErr = "tooLong"
    /\ maxSteps = 2
    /\ a = Pt(0, 0) /\ b = Pt(4, 2)
    /\ dstLog = <<Pt(0, 0)>>

\* The endpoint the walk starts from: the one with the lower coordinate on
\* the major axis (the endpoints are swapped when a has the higher one).
StartEndpoint(p, q) ==
    IF XMajor(p, q)
    THEN (IF p.X > q.X THEN q ELSE p)
    ELSE (IF p.Y > q.Y THEN q ELSE p)

\* The point at step t of the walk from p to q: start + t on the major axis,
\* trunc(origin + t * slope) on the minor one, slope the quotient of the
\* signed differences between the start and the terminal endpoint.
PointAtStep(p, q, t) ==
    LET s == StartEndpoint(p, q)
        e == TerminalEndpoint(p, q)
    IN  IF XMajor(p, q)
        THEN Pt(s.X + t,
                TruncDiv((s.Y * (e.X - s.X)) + (t * (e.Y - s.Y)), e.X - s.X))
        ELSE Pt(TruncDiv((s.X * (e.Y - s.Y)) + (t * (e.X - s.X)), e.Y - s.Y),
                s.Y + t)

\* The bounding box of p and q, both included.
InBoundingBox(pt, p, q) ==
    /\ Min2(p.X, q.X) <= pt.X /\ pt.X <= Max2(p.X, q.X)
    /\ Min2(p.Y, q.Y) <= pt.Y /\ pt.Y <= Max2(p.Y, q.Y)

\* C14: the t-th point Next() returns (t = 0 for the first) has major
\* coordinate start + t and minor coordinate trunc(origin + t * slope); the
\* first point is the starting endpoint and every point lies in the
\* bounding box of a and b.
C14_PointAtStepT ==
    (a # b /\ linePc \in {"loop", "done"}) =>
        \A i \in DOMAIN dstLog :
            /\ dstLog[i] = PointAtStep(a, b, i - 1)
            /\ InBoundingBox(dstLog[i], a, b)

\* C19: for a # b, consecutive points returned by Next() differ by exactly
\* 1 on the major axis, which increases, and by at most 1 on the minor
\* axis: the walk has no gap.
C19_NoGap ==
    (a # b) =>
        \A i \in 1..(Len(dstLog) - 1) :
            IF XMajor(a, b)
            THEN /\ dstLog[i + 1].X = dstLog[i].X + 1
                 /\ Abs(dstLog[i + 1].Y - dstLog[i].Y) <= 1
            ELSE /\ dstLog[i + 1].Y = dstLog[i].Y + 1
                 /\ Abs(dstLog[i + 1].X - dstLog[i].X) <= 1

\* The walk from (-1,1) to (1,4), whose third point depends on the build,
\* (0,3) or (1,3), drawn whole.
C19_Witness ==
    /\ LineDrawn
    /\ a = Pt(-1, 1) /\ b = Pt(1, 4)
    /\ Len(dstLog) = 3
    /\ dstLog[2] = Pt(0, 2)
    /\ dstLog[3] = Pt(IF build.fma THEN 0 ELSE 1, 3)

----------------------------------------------------------------------------
(* Properties: JumpFloodFill and VoronoiFill *)

\* JumpFloodFill has returned (to VoronoiFill, which may have returned too).
FloodReturned == floodPc \in {"copy", "done"} /\ fillErr = "none"

\* VoronoiFill has returned nil.
FillReturned == floodPc = "done" /\ fillErr = "none"

AllDefined == \A c \in Cells(W, H) : Pixels[c].IsDefined

\* The surface before the first call.
FirstPic == [c \in Cells(W, H) |-> PicColor(W, c.X, c.Y)]

\* C5, as stated: with at least one seed, every cell is defined when
\* JumpFloodFill returns, whatever the grid size and the seeds.
C5_AlwaysComplete ==
    (FloodReturned /\ calls = 1 /\ seeds # {}) => AllDefined

\* C5, amended: with at least one seed on a grid whose larger side is a
\* power of two, every cell is defined when JumpFloodFill returns.
C5_CompleteOnPowerOfTwo ==
    (FloodReturned /\ calls = 1 /\ seeds # {} /\ IsPowerOfTwo(Max2(W, H)))
        => AllDefined

\* A 4x3 grid filled from the single seed (3,2), far from (0,0).
C5_Witness ==
    /\ FloodReturned /\ calls = 1
    /\ W = 4 /\ H = 3 /\ seeds = {Pt(3, 2)}
    /\ Pixels[Pt(0, 0)].IsDefined
    /\ Pixels[Pt(0, 0)].SeedLocation = Pt(3, 2)

\* C6: when (0,0) is the only seed, after JumpFloodFill every cell is
\* defined, has SeedLocation (0,0) and the colour of the seed.
C6_SingleSeedAtOrigin ==
    (FloodReturned /\ calls = 1 /\ seeds = {Pt(0, 0)}) =>
        \A c \in Cells(W, H) :
            /\ Pixels[c].IsDefined
            /\ Pixels[c].SeedLocation = Pt(0, 0)
            /\ Pixels[c].Color = PicColor(W, 0, 0)

\* The 4x4 grid seeded at (0,0), filled.
C6_Witness ==
    /\ FloodReturned /\ calls = 1
    /\ W = 4 /\ H = 4 /\ seeds = {Pt(0, 0)}
    /\ Pixels[Pt(3, 3)].IsDefined
    /\ ~Pixels[Pt(3, 3)].IsSeed

\* The two seeds at opposite corners of an N x N grid.
CornerSeeds == W = H /\ W >= 2 /\ seeds = {Pt(0, 0), Pt(W - 1, H - 1)}

\* The seed of cell c is a nearest seed.
NearestSeed(c) ==
    \A s \in seeds :
        SeedDistance(c.X, c.Y, Pixels[c].SeedLocation) <= SeedDistance(c.X, c.Y, s)

\* C7, as stated: with seeds at the two opposite corners of an N x N grid,
\* every defined cell's SeedLocation is a nearest seed.
C7_CornersNearest ==
    (FloodReturned /\ calls = 1 /\ CornerSeeds) =>
        \A c \in Cells(W, H) : Pixels[c].IsDefined => NearestSeed(c)

\* C7, amended: every cell is defined and holds one of the two seeds and
\* that seed's colour; for N <= 6 the seed is a nearest seed.
C7_CornersSeedConsistent ==
    (FloodReturned /\ calls = 1 /\ CornerSeeds) =>
        \A c \in Cells(W, H) :
            /\ Pixels[c].IsDefined
            /\ Pixels[c].SeedLocation \in seeds
            /\ Pixels[c].Color =
                  PicColor(W, Pixels[c].SeedLocation.X, Pixels[c].SeedLocation.Y)
            /\ (W <= 6 => NearestSeed(c))

\* The 6x6 grid, where a cell next to the far corner took the far seed from
\* a cell that first held the seed (0,0).
C7_Witness ==
    /\ FloodReturned /\ calls = 1 /\ CornerSeeds /\ W = 6
    /\ Pixels[Pt(4, 3)].SeedLocation = Pt(5, 5)
    /\ Pixels[Pt(1, 2)].SeedLocation = Pt(0, 0)

\* A pass with two buffers: every pixel is computed from the pixels P the
\* pass started with.
DoubleBufferedPass(P, w, h, size) ==
    [c \in Cells(w, h) |-> setSinglePixel(P, w, h, c.X, c.Y, size)[c]]

\* A pass (one step size) has processed every pixel.
PassOver == floodPc = "flood" /\ stepSize > 0 /\ fy >= H

\* C16: within a pass the neighbours read hold the values of the end of
\* the previous pass: the grid after a pass is the grid a double-buffered
\* pass makes of the previous pass's grid.
C16_PassIsDoubleBuffered ==
    PassOver => Pixels = DoubleBufferedPass(passPixels, W, H, stepSize)

\* C17: in every state of JumpFloodFill each seed cell is as it started
\* (IsSeed, IsDefined, its own colour and its own location) and no other
\* cell is a seed.
C17_SeedsImmutable ==
    floodPc \in {"flood", "copy"} =>
        \A c \in Cells(W, H) :
            IF c \in seeds
            THEN Pixels[c] = [IsSeed |-> TRUE, IsDefined |-> TRUE,
                              Color |-> pic[c], SeedLocation |-> c]
            ELSE ~Pixels[c].IsSeed

\* The 3x3 grid with seeds at two corners after its pass: the seed (2,2),
\* processed next to cells that hold the seed (0,0), is unchanged, and the
\* cell (1,1) is defined without being a seed.
C17_Witness ==
    /\ PassOver /\ CornerSeeds /\ W = 3
    /\ Pixels[Pt(2, 2)].IsSeed
    /\ Pixels[Pt(2, 2)].SeedLocation = Pt(2, 2)
    /\ Pixels[Pt(1, 1)].IsDefined
    /\ ~Pixels[Pt(1, 1)].IsSeed

\* The pixel setSinglePixel is about to process, already defined and not a
\* seed.
ProcessingDefined ==
    /\ floodPc = "flood" /\ stepSize > 0 /\ fy < H
    /\ Pixels[Pt(fx, fy)].IsDefined
    /\ ~Pixels[Pt(fx, fy)].IsSeed

\* The k-th neighbour examined for the pixel (fx, fy).
NeighborPixel(k) ==
    At(Pixels, W, H, fx + (NeighborOrder[k][1] * stepSize),
                     fy + (NeighborOrder[k][2] * stepSize))

\* The neighbours, by their place in the order of examination, whose seed
\* is strictly closer to (fx, fy) than the pixel's own seed.
CloserNeighbors ==
    {k \in DOMAIN NeighborOrder :
        /\ NeighborPixel(k).IsDefined
        /\ SeedDistance(fx, fy, NeighborPixel(k).SeedLocation)
              < SeedDistance(fx, fy, Pixels[Pt(fx, fy)].SeedLocation)}

\* Among them, the first examined of those whose seed is closest.
BestNeighbor ==
    CHOOSE k \in CloserNeighbors :
        \A n \in CloserNeighbors :
            LET dk == SeedDistance(fx, fy, NeighborPixel(k).SeedLocation)
                dn == SeedDistance(fx, fy, NeighborPixel(n).SeedLocation)
            IN  (dk < dn) \/ (dk = dn /\ k <= n)

\* C18: processing an already-defined pixel that is not a seed replaces its
\* SeedLocation and Color only by those of a neighbour whose seed is
\* strictly closer than its own; among equally close candidates the one
\* examined first is kept; the distance of a pixel to its seed never grows.
C18_OnlyStrictlyCloser ==
    [][ProcessingDefined =>
          LET c == Pt(fx, fy)
          IN  /\ Pixels'[c] =
                    IF CloserNeighbors = {} THEN Pixels[c]
                    ELSE [Pixels[c] EXCEPT
                            !.SeedLocation = NeighborPixel(BestNeighbor).SeedLocation,
                            !.Color = NeighborPixel(BestNeighbor).Color]
              /\ SeedDistance(c.X, c.Y, Pixels'[c].SeedLocation)
                    <= SeedDistance(c.X, c.Y, Pixels[c].SeedLocation)
              /\ \A o \in Cells(W, H) \ {c} : Pixels'[o] = Pixels[o]]_vars

\* The 4x4 grid with seeds at two corners: the pass with step 2 gave the
\* cell (1,1) the seed (3,3), at squared distance 8, and the pass with step
\* 1 has replaced it by the seed (0,0), at squared distance 2.
C18_Witness ==
    /\ floodPc = "flood" /\ CornerSeeds /\ W = 4 /\ stepSize = 1
    /\ passPixels[Pt(1, 1)].IsDefined
    /\ passPixels[Pt(1, 1)].SeedLocation = Pt(3, 3)
    /\ Pixels[Pt(1, 1)].SeedLocation = Pt(0, 0)
    /\ Pixels[Pt(1, 1)].Color = PicColor(W, 0, 0)

\* C8: VoronoiFill writes a fully transparent colour at every pixel whose
\* cell is undefined when the flood ends.
C8_UndefinedWrittenTransparent ==
    FillReturned =>
        \A c \in Cells(W, H) : ~Pixels[c].IsDefined => pic[c].a = 0

\* C9: when every pixel is a seed, VoronoiFill leaves every pixel's colour
\* as it was, after the first call and after the second.
C9_AllSeedsNoOp ==
    (FillReturned /\ seeds = Cells(W, H)) => pic = FirstPic

\* A 3x2 surface, every pixel a seed, after the second call.
C9_Witness ==
    /\ FillReturned /\ calls = 2
    /\ W = 3 /\ H = 2 /\ seeds = Cells(W, H)
    /\ pic[Pt(2, 0)] = PicColor(W, 2, 0)

----------------------------------------------------------------------------
(* Properties: CompositeImage *)

\* The rectangle layer i is placed at: topLeft to topLeft + layer size.
LayerRectangle(i) ==
    LET size == Canon(layerPics[i].Bounds)
    IN  Rectangle(topLeftPoints[i],
                  Pt(topLeftPoints[i].X + Dx(size), topLeftPoints[i].Y + Dy(size)))

SetMin(S) == CHOOSE m \in S : \A n \in S : m <= n

SetMax(S) == CHOOSE m \in S : \A n \in S : m >= n

\* The smallest rectangle enclosing the rectangles of the set R.
Enclosing(R) ==
    Rectangle(Pt(SetMin({r.Min.X : r \in R}), SetMin({r.Min.Y : r \in R})),
              Pt(SetMax({r.Max.X : r \in R}), SetMax({r.Max.Y : r \in R})))

LayerRectangles == {LayerRectangle(i) : i \in DOMAIN layerPics}

\* C10, as stated: after one or more AddImage calls the bounds are exactly
\* the union of the layers' placed rectangles; with no layers, 1x1.  Stated
\* for layers that are not empty, where the union is not in question.
C10_BoundsAreUnionOfLayers ==
    IF layerPics = <<>>
    THEN Dx(bounds) = 1 /\ Dy(bounds) = 1
    ELSE (\A r \in LayerRectangles : Dx(r) > 0 /\ Dy(r) > 0)
            => bounds = Enclosing(LayerRectangles)

\* C10, amended: the bounds are the smallest rectangle enclosing the initial
\* (0,0)-(1,1) and the layers' placed rectangles (an empty layer counts as
\* its top-left point), and Bounds() is that rectangle moved to (0,0).
C10_BoundsEncloseInitialAndLayers ==
    /\ bounds = Enclosing({Rectangle(Pt(0, 0), Pt(1, 1))} \cup LayerRectangles)
    /\ \A i \in DOMAIN layerPics : compositeBounds[i] = LayerRectangle(i)
    /\ CompositeBounds(bounds) =
          Rectangle(Pt(0, 0), Pt(bounds.Max.X - bounds.Min.X,
                                 bounds.Max.Y - bounds.Min.Y))

\* 2x2 layers at (0,0) and (1,1) give (0,0)-(3,3), the spec's example
\* halved.
C10_Witness ==
    /\ Len(layerPics) = 2
    /\ topLeftPoints = <<Pt(0, 0), Pt(1, 1)>>
    /\ layerPics[1].Bounds = Rectangle(Pt(0, 0), Pt(2, 2))
    /\ layerPics[2].Bounds = Rectangle(Pt(0, 0), Pt(2, 2))
    /\ bounds = Rectangle(Pt(0, 0), Pt(3, 3))

\* The points At is asked for: the composite's bounds and one pixel around.
AtQueries == {Pt(x, y) : x \in (0 - 1)..Dx(bounds), y \in (0 - 1)..Dy(bounds)}

\* The colour of layer i at the composite point pt.
LayerColorAt(i, pt) ==
    ImageAt(layerPics[i], pt.X - topLeftPoints[i].X, pt.Y - topLeftPoints[i].Y)

\* The layers whose placed rectangle contains pt and whose colour there has
\* a nonzero alpha.
LayersShowing(pt) ==
    {i \in DOMAIN layerPics :
        PtIn(pt, LayerRectangle(i)) /\ LayerColorAt(i, pt).a # 0}

====
